---- MODULE Spec2Model ----
(***************************************************************************)
(* Model of Rivals.py: the Hero data holder, Recommender.recommend and the *)
(* _prompt_choice input loop.                                              *)
(*                                                                         *)
(* Strings are sequences of one-character strings, so that str.lower(),    *)
(* str.strip() and Python's code-point ordering of strings are computed    *)
(* rather than assumed.                                                    *)
(*                                                                         *)
(* Numbers are fixed point (exact decimal arithmetic in place of binary    *)
(* floating point):                                                        *)
(*   raw map scores        tenths            (95      = 9.5)               *)
(*   map_norm, role_prof   hundredths        (95      = 0.95)              *)
(*   map/role weights      1e-5              (60000   = 0.6)               *)
(*   bonus multipliers     hundredths        (105     = 1.05)              *)
(*   bonus_weight          hundredths        (5       = 0.05)              *)
(*   bonus ** exponent     1e-4              (10247   = 1.0247)            *)
(*   base                  1e-7              (9025000 = 0.9025)            *)
(*   scores (round(_, 4))  1e-4              (9248    = 0.9248)            *)
(***************************************************************************)
EXTENDS Integers, Sequences, FiniteSets, TLC

VARIABLES config, heroes, call, result, first, options, transcript, pc, ret

vars == <<config, heroes, call, result, first, options, transcript, pc, ret>>

recVars == <<config, heroes, call, result, first>>

promptVars == <<options, transcript, pc, ret>>

(***************************************************************************)
(* Bounds of the model.                                                    *)
(***************************************************************************)
MaxHeroes == 2

MaxTopN == 3

MinTopN == 0 - 2

MaxResponses == 3

(***************************************************************************)
(* Fixed-point scales.                                                     *)
(***************************************************************************)
RawScale == 10

NormScale == 100

WeightScale == 100000

BonusScale == 100

PowScale == 10000

ScoreScale == 10000

(***************************************************************************)
(* Strings.                                                                *)
(***************************************************************************)
UpperCase == <<"A","B","C","D","E","F","G","H","I","J","K","L","M",
               "N","O","P","Q","R","S","T","U","V","W","X","Y","Z">>

LowerCase == <<"a","b","c","d","e","f","g","h","i","j","k","l","m",
               "n","o","p","q","r","s","t","u","v","w","x","y","z">>

Letters == 1..26

\* c.lower() for an upper-case letter c
LowerOfUpper == [c \in {UpperCase[i] : i \in Letters} |->
                    LowerCase[CHOOSE i \in Letters : UpperCase[i] = c]]

\* ord(c) of the characters the model uses
OrdTable ==
    [c \in {UpperCase[i] : i \in Letters} \cup {LowerCase[i] : i \in Letters}
           \cup {" ", "-"} |->
        IF c = " " THEN 32
        ELSE IF c = "-" THEN 45
        ELSE IF c \in DOMAIN LowerOfUpper
             THEN 64 + (CHOOSE i \in Letters : UpperCase[i] = c)
             ELSE 96 + (CHOOSE i \in Letters : LowerCase[i] = c)]

Ord(c) == OrdTable[c]

LowerChar(c) == IF c \in DOMAIN LowerOfUpper THEN LowerOfUpper[c] ELSE c

\* str.lower()
Lower(s) == [i \in 1..Len(s) |-> LowerChar(s[i])]

\* s < t for Python strings: lexicographic on code points
StrLess(s, t) ==
    \/ /\ Len(s) < Len(t)
       /\ \A i \in 1..Len(s) : s[i] = t[i]
    \/ \E k \in 1..Len(s) :
          /\ k <= Len(t)
          /\ \A i \in 1..(k - 1) : s[i] = t[i]
          /\ Ord(s[k]) < Ord(t[k])

StrLeq(s, t) == s = t \/ StrLess(s, t)

RECURSIVE LStrip(_)
LStrip(s) == IF s # <<>> /\ Head(s) = " " THEN LStrip(Tail(s)) ELSE s

RECURSIVE RStrip(_)
RStrip(s) ==
    IF s # <<>> /\ s[Len(s)] = " " THEN RStrip(SubSeq(s, 1, Len(s) - 1)) ELSE s

\* str.strip()
Strip(s) == RStrip(LStrip(s))

\* x in list
InSeq(x, s) == \E i \in 1..Len(s) : s[i] = x

(***************************************************************************)
(* Hero.  A dict argument is None or the sequence of its <<key, value>>     *)
(* items in insertion order; a constructed dict is a function on its keys. *)
(***************************************************************************)
\* a dict argument left at its default
None == [given |-> FALSE, items |-> <<>>]

\* a dict argument with the given items
Dict(items) == [given |-> TRUE, items |-> items]

\* (d or {}).items()
OrEmpty(d) == IF d.given /\ d.items # <<>> THEN d.items ELSE <<>>

EmptyDict == [k \in {} |-> 0]

\* d[k] = v on a dict
DictPut(d, k, v) == [x \in (DOMAIN d) \cup {k} |-> IF x = k THEN v ELSE d[x]]

\* {k.lower(): v for k, v in items}: a later item overwrites an earlier one
RECURSIVE LowerKeys(_, _)
LowerKeys(items, d) ==
    IF items = <<>> THEN d
    ELSE LowerKeys(Tail(items), DictPut(d, Lower(Head(items)[1]), Head(items)[2]))

\* {(m.lower(), r.lower()): b for (m, r), b in items}
RECURSIVE LowerPairKeys(_, _)
LowerPairKeys(items, d) ==
    IF items = <<>> THEN d
    ELSE LowerPairKeys(Tail(items),
            DictPut(d, <<Lower(Head(items)[1][1]), Lower(Head(items)[1][2])>>,
                    Head(items)[2]))

\* Hero.__init__(name, roles, map_scores, role_proficiencies, map_role_bonus)
HeroInit(a) ==
    [name               |-> a.name,
     roles              |-> [i \in 1..Len(a.roles) |-> Lower(a.roles[i])],
     map_scores         |-> LowerKeys(OrEmpty(a.map_scores), EmptyDict),
     role_proficiencies |-> LowerKeys(OrEmpty(a.role_proficiencies), EmptyDict),
     map_role_bonus     |-> LowerPairKeys(OrEmpty(a.map_role_bonus), EmptyDict)]

\* dict.get(k, default)
DictGet(d, k, default) == IF k \in DOMAIN d THEN d[k] ELSE default

RawMapScoreNoLower(h, map_name) == DictGet(h.map_scores, map_name, 0)

\* Hero.raw_map_score
raw_map_score(h, map_name) == DictGet(h.map_scores, Lower(map_name), 0)

\* Hero.role_proficiency
role_proficiency(h, role) == DictGet(h.role_proficiencies, Lower(role), 0)

BonusDefaultTenPercent(h, map_name, role) ==
    DictGet(h.map_role_bonus, <<Lower(map_name), Lower(role)>>, 110)

\* Hero.map_role_bonus_multiplier
map_role_bonus_multiplier(h, map_name, role) ==
    DictGet(h.map_role_bonus, <<Lower(map_name), Lower(role)>>, BonusScale)

(***************************************************************************)
(* Recommender.recommend                                                   *)
(***************************************************************************)
Min(a, b) == IF a <= b THEN a ELSE b

Max(a, b) == IF a >= b THEN a ELSE b

MapNormNoUpperClamp(raw) == Max(0, (raw * NormScale) \div (10 * RawScale))

\* max(0.0, min(1.0, raw / 10.0))
MapNorm(raw) == Max(0, Min(NormScale, (raw * NormScale) \div (10 * RawScale)))

\* floor(sqrt(x)) by bisection; lo * lo <= x < hi * hi
RECURSIVE ISqrtIn(_, _, _)
ISqrtIn(x, lo, hi) ==
    IF hi - lo <= 1 THEN lo
    ELSE LET mid == (lo + hi) \div 2
         IN  IF mid * mid <= x THEN ISqrtIn(x, mid, hi) ELSE ISqrtIn(x, lo, mid)

\* sqrt(x) rounded to the nearest integer
SqrtNearest(x) ==
    LET r == ISqrtIn(x, 0, 46340) IN IF x - r * r > r THEN r + 1 ELSE r

\* bonus ** (bonus_weight * 10), for exponents that are multiples of 0.5
RECURSIVE BonusPow(_, _)
BonusPow(bonus, halves) ==
    IF halves = 0 THEN PowScale
    ELSE IF halves = 1
         THEN SqrtNearest(bonus * ((PowScale * PowScale) \div BonusScale))
         ELSE (BonusPow(bonus, halves - 2) * bonus) \div BonusScale

\* round(q + rem / den, 0) for 0 <= rem < den, ties to even
RoundHalfEven(q, rem, den) ==
    IF 2 * rem > den \/ (2 * rem = den /\ q % 2 = 1) THEN q + 1 ELSE q

\* round(base * pow, 4): base in 1e-7, pow in 1e-4, result in 1e-4.
\* The product is formed in two limbs of PowScale to stay within 32 bits.
RoundFinal(base, pow) ==
    LET a == base \div PowScale
        b == base % PowScale
        U == a * pow + (b * pow) \div PowScale
        V == (b * pow) % PowScale
        D == (NormScale * WeightScale) \div ScoreScale
    IN  RoundHalfEven(U \div D, (U % D) * PowScale + V, D * PowScale)

\* base = map_norm * map_weight + role_prof * role_weight
BaseScore(h, role_lc, map_name, map_weight, role_weight) ==
    MapNorm(raw_map_score(h, map_name)) * map_weight
        + role_proficiency(h, role_lc) * role_weight

\* compute_score(h), the closure of recommend
compute_score(h, role_lc, map_name, map_weight, role_weight, bonus_weight) ==
    LET base  == BaseScore(h, role_lc, map_name, map_weight, role_weight)
        bonus == map_role_bonus_multiplier(h, map_name, role_lc)
    IN  RoundFinal(base, BonusPow(bonus, (bonus_weight * 10) \div 50))

\* role_lc in h.roles
CanPlay(h, role_lc) == InSeq(role_lc, h.roles)

\* [i for i, h in enumerate(hs) if role_lc in h.roles]; heroes are referred
\* to by their position in the dataset
RECURSIVE CandidatesFrom(_, _, _)
CandidatesFrom(hs, role_lc, i) ==
    IF i > Len(hs) THEN <<>>
    ELSE IF CanPlay(hs[i], role_lc)
         THEN <<i>> \o CandidatesFrom(hs, role_lc, i + 1)
         ELSE CandidatesFrom(hs, role_lc, i + 1)

CandidatesRawRole(hs, role) == CandidatesFrom(hs, role, 1)

\* role_lc = role.lower(); candidates = [h for h in self.heroes if role_lc in h.roles]
Candidates(hs, role) == CandidatesFrom(hs, Lower(role), 1)

KeyLessAscendingScore(hs, x, y) ==
    \/ x[2] < y[2]
    \/ x[2] = y[2] /\ StrLess(Lower(hs[x[1]].name), Lower(hs[y[1]].name))

KeyLessRawName(hs, x, y) ==
    \/ 0 - x[2] < 0 - y[2]
    \/ x[2] = y[2] /\ StrLess(hs[x[1]].name, hs[y[1]].name)

\* key(x) < key(y) for key = lambda t: (-t[1], t[0].name.lower())
KeyLess(hs, x, y) ==
    \/ 0 - x[2] < 0 - y[2]
    \/ x[2] = y[2] /\ StrLess(Lower(hs[x[1]].name), Lower(hs[y[1]].name))

\* insert x into the sorted list s before the first entry with a greater key
RECURSIVE InsertByKey(_, _, _)
InsertByKey(hs, s, x) ==
    IF s = <<>> THEN <<x>>
    ELSE IF KeyLess(hs, x, Head(s)) THEN <<x>> \o s
         ELSE <<Head(s)>> \o InsertByKey(hs, Tail(s), x)

\* list.sort(key=...): stable, ascending in the key
RECURSIVE SortByKey(_, _, _)
SortByKey(hs, s, done) ==
    IF s = <<>> THEN done
    ELSE SortByKey(hs, Tail(s), InsertByKey(hs, done, Head(s)))

SliceOneMore(s, n) ==
    IF n >= 0 THEN SubSeq(s, 1, Min(n + 1, Len(s)))
    ELSE SubSeq(s, 1, Max(Len(s) + n, 0))

\* s[:n]
SliceTo(s, n) ==
    IF n >= 0 THEN SubSeq(s, 1, Min(n, Len(s)))
    ELSE SubSeq(s, 1, Max(Len(s) + n, 0))

\* scored = [(h, compute_score(h)) for h in candidates]
Scored(hs, a) ==
    LET cands == Candidates(hs, a.role)
    IN  [k \in 1..Len(cands) |->
            <<cands[k], compute_score(hs[cands[k]], Lower(a.role), a.map_name,
                                      a.map_weight, a.role_weight, a.bonus_weight)>>]

\* Recommender.recommend: the value returned
Recommend(hs, a) == SliceTo(SortByKey(hs, Scored(hs, a), <<>>), a.top_n)

RECURSIVE KeepCandidates(_, _, _)
KeepCandidates(hs, role_lc, i) ==
    IF i > Len(hs) THEN <<>>
    ELSE IF CanPlay(hs[i], role_lc)
         THEN <<hs[i]>> \o KeepCandidates(hs, role_lc, i + 1)
         ELSE KeepCandidates(hs, role_lc, i + 1)

HeroesFilteredInPlace(hs, a) == KeepCandidates(hs, Lower(a.role), 1)

\* Recommender.recommend: self.heroes when it returns.  candidates and scored
\* are new lists; scored.sort and the slice never touch self.heroes.
HeroesAfterRecommend(hs, a) == hs

(***************************************************************************)
(* _prompt_choice                                                          *)
(***************************************************************************)
\* list.index(x): the first position holding x
IndexOf(s, x) == CHOOSE i \in 1..Len(s) : s[i] = x /\ \A j \in 1..(i - 1) : s[j] # x

\* opts_lc = [o.lower() for o in options]
OptsLc(opts) == [i \in 1..Len(opts) |-> Lower(opts[i])]

\* resp.lower() in opts_lc
Matches(opts, resp) == InSeq(Lower(resp), OptsLc(opts))

PromptReturnRaw(opts, resp) == resp

\* return options[opts_lc.index(resp.lower())]
PromptReturn(opts, resp) == opts[IndexOf(OptsLc(opts), Lower(resp))]

(***************************************************************************)
(* Inputs.                                                                 *)
(***************************************************************************)
sDPS == <<"D","P","S">>

sTank == <<"T","a","n","k">>

sMidtown == <<"M","i","d","t","o","w","n">>

sKrakoa == <<"K","r","a","k","o","a">>

\* constructor arguments of the heroes a dataset is drawn from
HeroPool ==
    { [name |-> <<"A","b">>, roles |-> <<sDPS>>,
       map_scores |-> Dict(<< <<<<"m","i","d","t","o","w","n">>, 95>> >>),
       role_proficiencies |-> Dict(<< <<sDPS, 95>> >>),
       map_role_bonus |-> Dict(<< << <<<<"m","i","d","t","o","w","n">>, sDPS>>, 105 >> >>)],
      [name |-> <<"B","o">>, roles |-> <<<<"d","p","s">>, sTank>>,
       map_scores |-> Dict(<< <<sMidtown, 80>> >>),
       role_proficiencies |-> Dict(<< <<<<"d","p","s">>, 85>>, <<<<"T","A","N","K">>, 150>> >>),
       map_role_bonus |-> None],
      [name |-> <<"a","l">>, roles |-> <<<<"D","p","s">>, <<"t","a","n","k">>>>,
       map_scores |-> Dict(<< <<<<"M","I","D","T","O","W","N">>, 80>>, <<<<"k","r","a","k","o","a">>, 250>> >>),
       role_proficiencies |-> Dict(<< <<sDPS, 85>> >>),
       map_role_bonus |-> None],
      [name |-> <<"Z","e","d">>, roles |-> <<sDPS, sTank>>,
       map_scores |-> None,
       role_proficiencies |-> None,
       map_role_bonus |-> None],
      [name |-> <<"b","o">>, roles |-> <<sTank>>,
       map_scores |-> Dict(<< <<<<"k","r","a","k","o","a">>, 0 - 5>>, <<sMidtown, 70>> >>),
       role_proficiencies |-> Dict(<< <<sTank, 90>>, <<<<"t","a","n","k">>, 50>> >>),
       map_role_bonus |-> Dict(<< << <<sKrakoa, sTank>>, 110 >> >>)] }

Datasets == UNION { [1..n -> HeroPool] : n \in 0..MaxHeroes }

Roles == { sDPS, <<"t","a","n","k">>, <<"H","e","a","l","e","r">> }

Maps == { <<"M","i","d","T","o","w","n">>, <<"k","r","a","k","o","a">> }

\* map_weight, role_weight (1e-5) and bonus_weight (1e-2); the first is the
\* default of recommend
Weights == { <<60000, 35000, 5>>, <<6, 0, 0>>, <<0, 100000, 10>> }

ArgsOf(roles, maps, tops, weights) ==
    { [role |-> r, map_name |-> m, top_n |-> n,
       map_weight |-> w[1], role_weight |-> w[2], bonus_weight |-> w[3]] :
      r \in roles, m \in maps, n \in tops, w \in weights }

AllArgs == ArgsOf(Roles, Maps, MinTopN..MaxTopN, Weights)

RepeatArgs == ArgsOf({sDPS, <<"t","a","n","k">>}, Maps, {1, MaxTopN}, {<<60000, 35000, 5>>})

OptionLists ==
    { <<<<"C","o","n","v","e","r","g","e","n","c","e">>, <<"C","o","n","v","o","y">>, <<"D","o","m","i","n","a","t","i","o","n">>>>,
      <<sMidtown, <<"A","r","a","k","k","o">>>>,
      <<<<"A","b">>, <<"A","B">>, <<"a","b">>>> }

Responses ==
    { <<" ","c","o","n","v","o","y"," ">>, <<"C","O","N","V","O","Y">>, <<"C","o","n","v","o","y">>, <<"c","o","n","v">>, <<>>, <<"a","b"," ">>, <<"m","i","d","t","o","w","n">>, <<" ">> }

(***************************************************************************)
(* The state machine.                                                      *)
(***************************************************************************)
\* HEROES = [Hero(...), ...]; Recommender(HEROES)
Construct(cfg) == [i \in 1..Len(cfg) |-> HeroInit(cfg[i])]

NoPrompt ==
    /\ options = <<>>
    /\ transcript = <<>>
    /\ pc = "idle"
    /\ ret = <<>>

Init ==
    /\ config \in Datasets
    /\ heroes = Construct(config)
    /\ call = <<>>
    /\ result = <<>>
    /\ first = <<>>
    /\ NoPrompt

\* one call of recommender.recommend(role, map_name, top_n, weights...).
\* When keep is set, first remembers the first call, what it returned, and
\* whether a call with other arguments has followed it.
RecommendCall(a, keep) ==
    /\ pc = "idle"
    /\ call' = <<a>>
    /\ result' = Recommend(heroes, a)
    /\ heroes' = HeroesAfterRecommend(heroes, a)
    /\ first' = IF ~keep THEN first
                ELSE IF first = <<>>
                     THEN <<[args |-> a, result |-> Recommend(heroes, a),
                             others |-> FALSE]>>
                     ELSE IF a # first[1].args
                          THEN <<[first[1] EXCEPT !.others = TRUE]>>
                          ELSE first
    /\ UNCHANGED <<config, promptVars>>

Next == \E a \in AllArgs : RecommendCall(a, FALSE)

Spec == Init /\ [][Next]_vars

NextRepeat == \E a \in RepeatArgs : RecommendCall(a, TRUE)

SpecRepeat == Init /\ [][NextRepeat]_vars

InitPrompt ==
    /\ config = <<>>
    /\ heroes = <<>>
    /\ call = <<>>
    /\ result = <<>>
    /\ first = <<>>
    /\ options \in OptionLists
    /\ transcript = <<>>
    /\ pc = "prompt"
    /\ ret = <<>>

\* one turn of the loop whose response is not among the options
PromptReject(r) ==
    /\ pc = "prompt"
    /\ Len(transcript) < MaxResponses
    /\ ~Matches(options, Strip(r))
    /\ transcript' = Append(transcript, r)
    /\ pc' = "prompt"
    /\ UNCHANGED <<options, ret, recVars>>

\* the turn of the loop that returns
PromptAccept(r) ==
    /\ pc = "prompt"
    /\ Len(transcript) < MaxResponses
    /\ Matches(options, Strip(r))
    /\ transcript' = Append(transcript, r)
    /\ pc' = "returned"
    /\ ret' = <<PromptReturn(options, Strip(r))>>
    /\ UNCHANGED <<options, recVars>>

NextPrompt == \E r \in Responses : PromptReject(r) \/ PromptAccept(r)

SpecPrompt == InitPrompt /\ [][NextPrompt]_vars

(***************************************************************************)
(* Vocabulary of the properties.                                           *)
(***************************************************************************)
Called == call # <<>>

TheArgs == call[1]

Entries == 1..Len(result)

Returned == { result[k][1] : k \in Entries }

\* the role, lowercased, is among the lowercased roles hero i was built with
Qualifies(i, role) ==
    \E j \in 1..Len(config[i].roles) : Lower(config[i].roles[j]) = Lower(role)

Qualifying(role) == { i \in 1..Len(config) : Qualifies(i, role) }

\* the items of a constructor dict whose key matches k up to letter case
ItemsFor(d, k) == { j \in 1..Len(OrEmpty(d)) : Lower(OrEmpty(d)[j][1]) = Lower(k) }

PairItemsFor(d, m, r) ==
    { j \in 1..Len(OrEmpty(d)) :
        /\ Lower(OrEmpty(d)[j][1][1]) = Lower(m)
        /\ Lower(OrEmpty(d)[j][1][2]) = Lower(r) }

NoBonusEntry(i, a) == PairItemsFor(config[i].map_role_bonus, a.map_name, a.role) = {}

NoData(i, a) ==
    /\ ItemsFor(config[i].map_scores, a.map_name) = {}
    /\ ItemsFor(config[i].role_proficiencies, a.role) = {}
    /\ NoBonusEntry(i, a)

\* the score recommend computes for hero i under the arguments a
ScoreOf(i, a) ==
    compute_score(heroes[i], Lower(a.role), a.map_name,
                  a.map_weight, a.role_weight, a.bonus_weight)

NameLc(i) == Lower(config[i].name)

\* entry (i, s) does not rank after entry (j, t)
RanksNoLater(i, s, j, t) == s > t \/ (s = t /\ StrLeq(NameLc(i), NameLc(j)))

\* C1: with top_n at least the size of the dataset, a hero is in the result
\* exactly when the lowercased role is among its lowercased roles; and a role
\* no hero has gives an empty result whatever top_n is.
C1_FilterCorrect ==
    Called =>
        /\ TheArgs.top_n >= Len(heroes) =>
              \A i \in 1..Len(heroes) : i \in Returned <=> Qualifies(i, TheArgs.role)
        /\ Qualifying(TheArgs.role) = {} => result = <<>>

C1_Witness ==
    /\ Called
    /\ TheArgs.top_n >= Len(heroes)
    /\ TheArgs.role # Lower(TheArgs.role)
    /\ \E i \in Returned : ~InSeq(Lower(TheArgs.role), config[i].roles)
    /\ \E i \in 1..Len(heroes) : i \notin Returned

\* C2: consecutive entries of the result are in descending score order, equal
\* scores in ascending order of the lowercased names.
C2_Ordered ==
    Called =>
        \A k \in 1..(Len(result) - 1) :
            RanksNoLater(result[k][1], result[k][2], result[k + 1][1], result[k + 1][2])

C2_Witness ==
    /\ Called
    /\ \E k \in 1..(Len(result) - 1) :
          /\ result[k][2] = result[k + 1][2]
          /\ result[k][2] > 0
          /\ StrLess(config[result[k + 1][1]].name, config[result[k][1]].name)
          /\ StrLess(NameLc(result[k][1]), NameLc(result[k + 1][1]))

\* C3: for positive top_n the result has min(top_n, number of heroes that can
\* play the role) entries.
C3_Truncation ==
    (Called /\ TheArgs.top_n > 0) =>
        Len(result) = Min(TheArgs.top_n, Cardinality(Qualifying(TheArgs.role)))

C3_Witness ==
    /\ Called
    /\ TheArgs.top_n > 0
    /\ TheArgs.top_n < Cardinality(Qualifying(TheArgs.role))
    /\ Len(result) = TheArgs.top_n

\* C4: a call with top_n zero or negative returns an empty sequence.
C4_NonPositiveTopNEmpty ==
    (Called /\ TheArgs.top_n <= 0) => result = <<>>

\* round(base, 4) of a base score in 1e-7
RoundBase(base) ==
    LET D == (NormScale * WeightScale) \div ScoreScale
    IN  RoundHalfEven(base \div D, base % D, D)

\* C5: a hero that can play the role but has no map score for the map, no
\* proficiency for the role and no bonus for the pair is returned when top_n
\* allows and scores exactly 0; a hero without a bonus entry scores its
\* rounded base score.
C5_GracefulDefault ==
    Called =>
        /\ \A i \in Qualifying(TheArgs.role) :
              NoData(i, TheArgs) =>
                  /\ TheArgs.top_n >= Len(heroes) => i \in Returned
                  /\ \A k \in Entries : result[k][1] = i => result[k][2] = 0
        /\ \A k \in Entries :
              NoBonusEntry(result[k][1], TheArgs) =>
                  result[k][2] =
                      RoundBase(BaseScore(heroes[result[k][1]], Lower(TheArgs.role),
                                          TheArgs.map_name, TheArgs.map_weight,
                                          TheArgs.role_weight))

C5_Witness ==
    /\ Called
    /\ TheArgs.role_weight > 0
    /\ TheArgs.bonus_weight > 0
    /\ \E k \in Entries :
          /\ NoData(result[k][1], TheArgs)
          /\ config[result[k][1]].map_scores = None
          /\ result[k][2] = 0
    /\ \E k \in Entries :
          /\ NoBonusEntry(result[k][1], TheArgs)
          /\ result[k][2] > 0

\* the bonus of hero i for the requested pair is 1.0 or absent
BonusIsOne(i, a) ==
    \A j \in PairItemsFor(config[i].map_role_bonus, a.map_name, a.role) :
        OrEmpty(config[i].map_role_bonus)[j][2] = BonusScale

\* the proficiency hero i stores for the requested role is at most 1.0
ProficiencyAtMostOne(i, a) ==
    \A j \in ItemsFor(config[i].role_proficiencies, a.role) :
        OrEmpty(config[i].role_proficiencies)[j][2] <= NormScale

\* C6 as stated: with a bonus of 1.0 or none, and nonnegative weights, the
\* score is at most map_weight + role_weight, whatever the hero stores.
C6_BoundAnyProficiency ==
    Called =>
        \A k \in Entries :
            BonusIsOne(result[k][1], TheArgs) =>
                result[k][2] * (WeightScale \div ScoreScale)
                    <= TheArgs.map_weight + TheArgs.role_weight

\* round(map_weight + role_weight, 4)
RoundedWeightSum(a) ==
    LET D == WeightScale \div ScoreScale
        w == a.map_weight + a.role_weight
    IN  RoundHalfEven(w \div D, w % D, D)

\* C6 amended: with a bonus of 1.0 or none, a stored proficiency of at most
\* 1.0 (or none) and nonnegative weights, the score is at most
\* map_weight + role_weight rounded to 4 decimals, whatever raw map score
\* the hero stores.
C6_BoundProficiencyInRange ==
    Called =>
        \A k \in Entries :
            (BonusIsOne(result[k][1], TheArgs) /\ ProficiencyAtMostOne(result[k][1], TheArgs))
                => result[k][2] <= RoundedWeightSum(TheArgs)

C6_Witness ==
    /\ Called
    /\ TheArgs.map_weight > 0
    /\ \E k \in Entries :
          /\ BonusIsOne(result[k][1], TheArgs)
          /\ ProficiencyAtMostOne(result[k][1], TheArgs)
          /\ \E j \in ItemsFor(config[result[k][1]].map_scores, TheArgs.map_name) :
                OrEmpty(config[result[k][1]].map_scores)[j][2] > 10 * RawScale
          /\ result[k][2] > 0

\* C7: a call leaves the dataset as it was, and a call with the arguments of
\* the first call returns what the first call returned.
C7_Deterministic ==
    [][ /\ heroes' = heroes
        /\ (first' # <<>> /\ call' # <<>> /\ call'[1] = first'[1].args)
              => result' = first'[1].result ]_vars

C7_Witness ==
    /\ first # <<>>
    /\ first[1].others
    /\ Called
    /\ TheArgs = first[1].args
    /\ Len(result) >= 1
    /\ Len(result) < Len(heroes)
    /\ heroes = Construct(config)

LowerItems(d) ==
    [d EXCEPT !.items = [j \in 1..Len(d.items) |-> <<Lower(d.items[j][1]), d.items[j][2]>>]]

LowerPairItems(d) ==
    [d EXCEPT !.items =
        [j \in 1..Len(d.items) |->
            << <<Lower(d.items[j][1][1]), Lower(d.items[j][1][2])>>, d.items[j][2] >>]]

\* the constructor arguments with every role name and dict key lowercased
LowerCased(cfg) ==
    [i \in 1..Len(cfg) |->
        [name               |-> cfg[i].name,
         roles              |-> [j \in 1..Len(cfg[i].roles) |-> Lower(cfg[i].roles[j])],
         map_scores         |-> LowerItems(cfg[i].map_scores),
         role_proficiencies |-> LowerItems(cfg[i].role_proficiencies),
         map_role_bonus     |-> LowerPairItems(cfg[i].map_role_bonus)]]

\* C8: the result is the one obtained with the role and the map lowercased,
\* on heroes built from the same data with all role names and keys lowercased.
C8_CaseInsensitive ==
    Called =>
        result = Recommend(Construct(LowerCased(config)),
                           [TheArgs EXCEPT !.role = Lower(@), !.map_name = Lower(@)])

C8_Witness ==
    /\ Called
    /\ TheArgs.role # Lower(TheArgs.role)
    /\ TheArgs.map_name # Lower(TheArgs.map_name)
    /\ LowerCased(config) # config
    /\ \E k \in Entries :
          /\ result[k][2] > 0
          /\ \E j \in ItemsFor(config[result[k][1]].map_scores, TheArgs.map_name) :
                /\ OrEmpty(config[result[k][1]].map_scores)[j][1] # Lower(TheArgs.map_name)
                /\ OrEmpty(config[result[k][1]].map_scores)[j][1] # TheArgs.map_name

\* C9: for positive top_n, every returned hero ranks no later than every
\* qualifying hero that was left out.
C9_TopN ==
    (Called /\ TheArgs.top_n > 0) =>
        \A k \in Entries :
            \A x \in Qualifying(TheArgs.role) \ Returned :
                RanksNoLater(result[k][1], result[k][2], x, ScoreOf(x, TheArgs))

C9_Witness ==
    /\ Called
    /\ TheArgs.top_n > 0
    /\ result # <<>>
    /\ \E x \in Qualifying(TheArgs.role) \ Returned :
          ScoreOf(x, TheArgs) > 0 /\ ScoreOf(x, TheArgs) < result[Len(result)][2]

\* the stripped response equals some option up to letter case
Valid(r) == \E i \in 1..Len(options) : Lower(options[i]) = Lower(Strip(r))

\* the first option equal to the stripped response up to letter case
Canonical(r) ==
    options[CHOOSE i \in 1..Len(options) :
                /\ Lower(options[i]) = Lower(Strip(r))
                /\ \A j \in 1..(i - 1) : Lower(options[j]) # Lower(Strip(r))]

\* C10: _prompt_choice has returned only after a matching response, which is
\* the last one; every response before it did not match; it is still
\* prompting after responses that all failed to match; and what it returns is
\* the first option equal to the response up to case, in the option's casing.
C10_PromptUntilMatch ==
    /\ pc = "prompt" =>
          /\ ret = <<>>
          /\ \A k \in 1..Len(transcript) : ~Valid(transcript[k])
    /\ pc = "returned" =>
          /\ transcript # <<>>
          /\ Valid(transcript[Len(transcript)])
          /\ \A k \in 1..(Len(transcript) - 1) : ~Valid(transcript[k])
          /\ ret = <<Canonical(transcript[Len(transcript)])>>

C10_Witness ==
    /\ pc = "returned"
    /\ Len(transcript) >= 2
    /\ ret[1] # Strip(transcript[Len(transcript)])
    /\ Strip(transcript[Len(transcript)]) # transcript[Len(transcript)]

====
